---- MODULE Spec2Model ----
(***************************************************************************)
(* Model of zzk's_flash_tool_new.py: the menu loop (main), the flash       *)
(* session (flash_images_from_folder, with its nested                      *)
(* check_device_connected and reboot_to_fastbootd, and check_adb_fastboot) *)
(* and the payload extraction (unpack_payload).                            *)
(*                                                                         *)
(* Every subprocess.run, time.sleep, input, os.listdir and mkdir of the    *)
(* source is one step that appends an event to `log`, in program order.    *)
(* The results of the outside world (exit statuses, captured output, what  *)
(* exists on disk, what the user types) are chosen with \E at the step     *)
(* that reads them.                                                        *)
(*                                                                         *)
(* Environment assumptions: every external call returns (no exception      *)
(* other than the ones the source handles), captured output is valid       *)
(* UTF-8, and a path that exists where a directory is expected is a        *)
(* directory.                                                              *)
(*                                                                         *)
(* File names and typed answers are sequences of one-character strings so  *)
(* that endswith, splitext, strip and lower are computed as Python         *)
(* computes them.                                                          *)
(***************************************************************************)
EXTENDS Integers, Sequences, FiniteSets, TLC

VARIABLES
    pc,           \* position in the program
    sessions,     \* number of menu selections made so far
    log,          \* events of the current session, in program order
    outcomes,     \* per-partition results printed by the current session
    mode,         \* Device Mode Controller state of the current session
    status,       \* how the current session ended ("Running" until it has)
    kind,         \* "none", "flash" or "unpack": the operation selected
    tools,        \* where check_adb_fastboot found adb/fastboot
    wantDyn,      \* "unasked", "yes" or "no": the answer to input() at line 100
    files,        \* the list os.listdir returned
    idx,          \* position of the for loop in files
    outDirExists  \* whether unpack_payload's output directory exists

vars == <<pc, sessions, log, outcomes, mode, status, kind, tools, wantDyn,
          files, idx, outDirExists>>

----------------------------------------------------------------------------
(* Bounds *)

MaxSessions == 2
MaxFiles == 3

----------------------------------------------------------------------------
(* Strings as character sequences *)

IMG_SUFFIX == <<".", "i", "m", "g">>

F_a_img == <<"a", ".", "i", "m", "g">>
F_ab_img == <<"a", ".", "b", ".", "i", "m", "g">>
F_dot_img == <<".", "i", "m", "g">>
F_a_txt == <<"a", ".", "t", "x", "t">>
F_img == <<"i", "m", "g">>

FileNames == {F_a_img, F_ab_img, F_dot_img, F_a_txt, F_img}

\* str.endswith
EndsWith(s, suf) ==
    /\ Len(s) >= Len(suf)
    /\ SubSeq(s, Len(s) - Len(suf) + 1, Len(s)) = suf

\* str.rfind('.') as a 1-based index, 0 when absent
RFindDot(p) ==
    IF \E i \in 1..Len(p) : p[i] = "."
    THEN CHOOSE i \in 1..Len(p) :
            /\ p[i] = "."
            /\ \A j \in (i+1)..Len(p) : p[j] # "."
    ELSE 0

\* os.path.splitext(p)[0] for a name without a directory separator
\* (genericpath._splitext): the extension starts at the last dot, unless only
\* dots precede that dot, and then there is no extension.
SplitextRoot(p) ==
    LET dotIndex == RFindDot(p) IN
    IF dotIndex > 0 /\ \E j \in 1..(dotIndex - 1) : p[j] # "."
    THEN SubSeq(p, 1, dotIndex - 1)
    ELSE p

\* line 112: filename.endswith('.img')
IsCandidate(filename) == EndsWith(filename, IMG_SUFFIX)

\* line 114: partition_name = os.path.splitext(filename)[0]
PartitionName(filename) == SplitextRoot(filename)

RECURSIVE StripLeft(_)
StripLeft(s) ==
    IF s # <<>> /\ Head(s) = " " THEN StripLeft(Tail(s)) ELSE s

RECURSIVE StripRight(_)
StripRight(s) ==
    IF s # <<>> /\ s[Len(s)] = " " THEN StripRight(SubSeq(s, 1, Len(s) - 1)) ELSE s

\* str.strip()
Strip(s) == StripRight(StripLeft(s))

LowerChar(c) == IF c = "Y" THEN "y" ELSE IF c = "N" THEN "n" ELSE c

\* str.lower()
Lower(s) == [i \in 1..Len(s) |-> LowerChar(s[i])]

\* what the user may type at the prompt of line 100
Answers == { <<"y">>, <<"Y">>, <<" ", "y", " ">>, <<"n">>, <<"y", "e", "s">>, <<>> }

\* lines 100-101: input(...).strip().lower() == 'y'
ChoiceIsYes(typed) == Lower(Strip(typed)) = <<"y">>

\* output captured from `fastboot devices`
ProbeOutputs == { <<>>, <<" ">>, <<"d">> }
ProbeResults == [rc : {0, 1}, out : ProbeOutputs]

\* lines 65-69: check_device_connected's verdict on a finished command
DeviceListed(r) == ~(r.rc # 0 \/ Strip(r.out) = <<>>)

\* the lists os.listdir can return: distinct names, any order
RECURSIVE Listings(_)
Listings(n) ==
    IF n = 0 THEN { <<>> }
    ELSE LET shorter == Listings(n - 1) IN
         shorter \cup
         { Append(l, f) : l \in { s \in shorter : Len(s) = n - 1 },
                          f \in FileNames }

NoDup(l) == \A i, j \in 1..Len(l) : i # j => l[i] # l[j]

DirListings == { l \in Listings(MaxFiles) : NoDup(l) }

----------------------------------------------------------------------------
(* Events *)

\* one external call: what was called, on what, and whether the code took its
\* result for a success
Ev(cmd, arg, ok) == [cmd |-> cmd, arg |-> arg, path |-> <<>>, ok |-> ok]

Issue(cmd, arg, ok) == log' = Append(log, Ev(cmd, arg, ok))

----------------------------------------------------------------------------

Init ==
    /\ pc = "menu"
    /\ sessions = 0
    /\ log = <<>>
    /\ outcomes = <<>>
    /\ mode = "Unknown"
    /\ status = "None"
    /\ kind = "none"
    /\ tools = "none"
    /\ wantDyn = "unasked"
    /\ files = <<>>
    /\ idx = 0
    /\ outDirExists \in BOOLEAN

\* a function of the menu is entered: nothing of the previous one is kept
Enter(k, at) ==
    /\ pc' = at
    /\ sessions' = sessions + 1
    /\ log' = <<>>
    /\ outcomes' = <<>>
    /\ mode' = "Unknown"
    /\ status' = "Running"
    /\ kind' = k
    /\ tools' = "none"
    /\ wantDyn' = "unasked"
    /\ files' = <<>>
    /\ idx' = 0
    /\ UNCHANGED outDirExists

\* the running function returns to main's loop
Return(st) ==
    /\ pc' = "menu"
    /\ status' = st

----------------------------------------------------------------------------
(* main *)

\* choice 1: function1 -> unpack_payload()
MenuUnpack ==
    /\ pc = "menu"
    /\ sessions < MaxSessions
    /\ Enter("unpack", "u_mkdir")

\* choice 2: function2 -> flash_images_from_folder()
MenuFlash ==
    /\ pc = "menu"
    /\ sessions < MaxSessions
    /\ Enter("flash", "f_dircheck")

\* choice 3 (function3 only prints), a number outside 1..4, or no number
MenuOther ==
    /\ pc = "menu"
    /\ sessions < MaxSessions
    /\ sessions' = sessions + 1
    /\ UNCHANGED <<pc, log, outcomes, mode, status, kind, tools, wantDyn,
                   files, idx, outDirExists>>

\* choice 4: exit_program
MenuExit ==
    /\ pc = "menu"
    /\ pc' = "exited"
    /\ UNCHANGED <<sessions, log, outcomes, mode, status, kind, tools, wantDyn,
                   files, idx, outDirExists>>

----------------------------------------------------------------------------
(* flash_images_from_folder *)

\* DirCheck placed after the call of check_adb_fastboot (lines 55-57 and 60
\* swapped): the tools are located before the directory is looked at
DirCheck_LocateFirst ==
    /\ pc = "f_dircheck"
    /\ \E exists \in BOOLEAN :
          /\ log' = log \o <<Ev("locate", <<>>, TRUE),
                             Ev("dir_exists", <<>>, exists)>>
          /\ tools' = "path"
          /\ IF ~exists
             THEN Return("AbortedNoDirectory")
             ELSE pc' = "f_probe1" /\ UNCHANGED status
    /\ UNCHANGED <<sessions, outcomes, mode, kind, wantDyn, files, idx,
                   outDirExists>>

\* DirCheck with the return of line 57 lost
DirCheck_NoReturn ==
    /\ pc = "f_dircheck"
    /\ \E exists \in BOOLEAN :
          /\ Issue("dir_exists", <<>>, exists)
          /\ pc' = "f_tools"
    /\ UNCHANGED <<sessions, outcomes, mode, status, kind, tools, wantDyn,
                   files, idx, outDirExists>>

\* lines 55-57: if not os.path.exists(image_dir): print; return
DirCheck ==
    /\ pc = "f_dircheck"
    /\ \E exists \in BOOLEAN :
          /\ Issue("dir_exists", <<>>, exists)
          /\ IF ~exists
             THEN Return("AbortedNoDirectory")
             ELSE pc' = "f_tools" /\ UNCHANGED status
    /\ UNCHANGED <<sessions, outcomes, mode, kind, tools, wantDyn, files, idx,
                   outDirExists>>

\* LocateTools with the sys.exit(1) of line 40 lost: the session goes on with
\* the paths of tools that do not exist
LocateTools_NoExit ==
    /\ pc = "f_tools"
    /\ \E adbOnPath, fastbootOnPath, adbLocal, fastbootLocal \in BOOLEAN :
          IF ~adbOnPath \/ ~fastbootOnPath
          THEN /\ pc' = "f_probe1"
               /\ tools' = "local"
               /\ Issue("locate", <<>>, ~(~adbLocal \/ ~fastbootLocal))
          ELSE /\ pc' = "f_probe1"
               /\ tools' = "path"
               /\ Issue("locate", <<>>, TRUE)
    /\ UNCHANGED <<sessions, outcomes, mode, status, kind, wantDyn, files,
                   idx, outDirExists>>

\* lines 19-24: check_tool_installed runs `<tool> --version`
\* lines 27-42: both on PATH, or else both in the adb folder, or else sys.exit(1)
LocateTools ==
    /\ pc = "f_tools"
    /\ \E adbOnPath, fastbootOnPath, adbLocal, fastbootLocal \in BOOLEAN :
          IF ~adbOnPath \/ ~fastbootOnPath
          THEN IF ~adbLocal \/ ~fastbootLocal
               THEN /\ pc' = "exited"
                    /\ status' = "ToolUnavailable"
                    /\ tools' = "none"
                    /\ Issue("locate", <<>>, FALSE)
               ELSE /\ pc' = "f_probe1"
                    /\ tools' = "local"
                    /\ Issue("locate", <<>>, TRUE)
                    /\ UNCHANGED status
          ELSE /\ pc' = "f_probe1"
               /\ tools' = "path"
               /\ Issue("locate", <<>>, TRUE)
               /\ UNCHANGED status
    /\ UNCHANGED <<sessions, outcomes, mode, kind, wantDyn, files, idx,
                   outDirExists>>

\* Probe1 with the condition of line 84 inverted: it reboots the device that
\* was found and goes on with the one that was not
Probe1_Inverted ==
    /\ pc = "f_probe1"
    /\ \E r \in ProbeResults :
          /\ Issue("probe", <<>>, DeviceListed(r))
          /\ IF ~DeviceListed(r)
             THEN mode' = "Bootloader" /\ pc' = "f_ask"
             ELSE mode' = mode /\ pc' = "f_reboot"
    /\ UNCHANGED <<sessions, outcomes, status, kind, tools, wantDyn, files,
                   idx, outDirExists>>

\* line 84: if not check_device_connected()
Probe1 ==
    /\ pc = "f_probe1"
    /\ \E r \in ProbeResults :
          /\ Issue("probe", <<>>, DeviceListed(r))
          /\ IF DeviceListed(r)
             THEN mode' = "Bootloader" /\ pc' = "f_ask"
             ELSE mode' = mode /\ pc' = "f_reboot"
    /\ UNCHANGED <<sessions, outcomes, status, kind, tools, wantDyn, files,
                   idx, outDirExists>>

\* RebootBootloader with the exit status ignored (lines 88-90 lost)
RebootBootloader_NoReturn ==
    /\ pc = "f_reboot"
    /\ \E rc \in {0, 1} :
          /\ Issue("reboot_bootloader", <<>>, rc = 0)
          /\ pc' = "f_settle"
    /\ UNCHANGED <<sessions, outcomes, mode, status, kind, tools, wantDyn,
                   files, idx, outDirExists>>

\* lines 87-90: adb reboot bootloader; a non-zero exit status returns
RebootBootloader ==
    /\ pc = "f_reboot"
    /\ \E rc \in {0, 1} :
          /\ Issue("reboot_bootloader", <<>>, rc = 0)
          /\ IF rc # 0
             THEN mode' = "Unreachable" /\ Return("AbortedUnreachable")
             ELSE mode' = mode /\ pc' = "f_settle" /\ UNCHANGED status
    /\ UNCHANGED <<sessions, outcomes, kind, tools, wantDyn, files, idx,
                   outDirExists>>

\* line 92: time.sleep(10)
Settle1 ==
    /\ pc = "f_settle"
    /\ Issue("sleep10", <<>>, TRUE)
    /\ pc' = "f_probe2"
    /\ UNCHANGED <<sessions, outcomes, mode, status, kind, tools, wantDyn,
                   files, idx, outDirExists>>

\* Probe2 that takes any finished `fastboot devices` for a device found (the
\* test of line 66 lost)
Probe2_AlwaysFound ==
    /\ pc = "f_probe2"
    /\ \E r \in ProbeResults :
          /\ Issue("probe", <<>>, DeviceListed(r))
          /\ mode' = "Bootloader"
          /\ pc' = "f_ask"
    /\ UNCHANGED <<sessions, outcomes, status, kind, tools, wantDyn, files,
                   idx, outDirExists>>

\* Probe2 with the return of line 95 lost: the session goes on after the
\* failed re-probe
Probe2_NoReturn ==
    /\ pc = "f_probe2"
    /\ \E r \in ProbeResults :
          /\ Issue("probe", <<>>, DeviceListed(r))
          /\ mode' = (IF DeviceListed(r) THEN "Bootloader" ELSE "Unreachable")
          /\ pc' = "f_ask"
    /\ UNCHANGED <<sessions, outcomes, status, kind, tools, wantDyn, files,
                   idx, outDirExists>>

\* lines 93-95: if not check_device_connected(): print; return
Probe2 ==
    /\ pc = "f_probe2"
    /\ \E r \in ProbeResults :
          /\ Issue("probe", <<>>, DeviceListed(r))
          /\ IF DeviceListed(r)
             THEN mode' = "Bootloader" /\ pc' = "f_ask" /\ UNCHANGED status
             ELSE mode' = "Unreachable" /\ Return("AbortedUnreachable")
    /\ UNCHANGED <<sessions, outcomes, kind, tools, wantDyn, files, idx,
                   outDirExists>>

\* Ask with the test of line 101 lost: the escalation follows any answer
Ask_AlwaysEscalate ==
    /\ pc = "f_ask"
    /\ \E typed \in Answers :
          /\ Issue("input", <<>>, ChoiceIsYes(typed))
          /\ wantDyn' = (IF ChoiceIsYes(typed) THEN "yes" ELSE "no")
          /\ pc' = "f_fbd_reboot"
    /\ UNCHANGED <<sessions, outcomes, mode, status, kind, tools, files, idx,
                   outDirExists>>

\* lines 98-101: choice = input(...).strip().lower(); if choice == 'y'
Ask ==
    /\ pc = "f_ask"
    /\ \E typed \in Answers :
          /\ Issue("input", <<>>, ChoiceIsYes(typed))
          /\ IF ChoiceIsYes(typed)
             THEN wantDyn' = "yes" /\ pc' = "f_fbd_reboot"
             ELSE wantDyn' = "no" /\ pc' = "f_listdir"
    /\ UNCHANGED <<sessions, outcomes, mode, status, kind, tools, files, idx,
                   outDirExists>>

\* RebootFastbootd with the result of reboot_to_fastbootd ignored at line
\* 102: after a failed reboot the session goes on to list the directory
RebootFastbootd_NoReturn ==
    /\ pc = "f_fbd_reboot"
    /\ \E rc \in {0, 1} :
          /\ Issue("reboot_fastboot", <<>>, rc = 0)
          /\ IF rc # 0
             THEN pc' = "f_listdir"
             ELSE pc' = "f_fbd_settle"
    /\ UNCHANGED <<sessions, outcomes, mode, status, kind, tools, wantDyn,
                   files, idx, outDirExists>>

\* lines 75-78 and 102-103: adb reboot fastboot; a non-zero exit status makes
\* reboot_to_fastbootd return False and the session return
RebootFastbootd ==
    /\ pc = "f_fbd_reboot"
    /\ \E rc \in {0, 1} :
          /\ Issue("reboot_fastboot", <<>>, rc = 0)
          /\ IF rc # 0
             THEN mode' = "Unreachable" /\ Return("AbortedUnreachable")
             ELSE mode' = mode /\ pc' = "f_fbd_settle" /\ UNCHANGED status
    /\ UNCHANGED <<sessions, outcomes, kind, tools, wantDyn, files, idx,
                   outDirExists>>

\* Settle2 with the sleep of line 80 lost: the re-probe follows the reboot
\* at once
Settle2_NoSleep ==
    /\ pc = "f_fbd_settle"
    /\ pc' = "f_probe3"
    /\ UNCHANGED <<sessions, log, outcomes, mode, status, kind, tools, wantDyn,
                   files, idx, outDirExists>>

\* line 80: time.sleep(10)
Settle2 ==
    /\ pc = "f_fbd_settle"
    /\ Issue("sleep10", <<>>, TRUE)
    /\ pc' = "f_probe3"
    /\ UNCHANGED <<sessions, outcomes, mode, status, kind, tools, wantDyn,
                   files, idx, outDirExists>>

\* Probe3 with the return of line 107 lost
Probe3_NoReturn ==
    /\ pc = "f_probe3"
    /\ \E r \in ProbeResults :
          /\ Issue("probe", <<>>, DeviceListed(r))
          /\ mode' = (IF DeviceListed(r) THEN "ExtendedBootloader"
                      ELSE "Unreachable")
          /\ pc' = "f_listdir"
    /\ UNCHANGED <<sessions, outcomes, status, kind, tools, wantDyn, files,
                   idx, outDirExists>>

\* lines 105-107: if not check_device_connected(): print; return
Probe3 ==
    /\ pc = "f_probe3"
    /\ \E r \in ProbeResults :
          /\ Issue("probe", <<>>, DeviceListed(r))
          /\ IF DeviceListed(r)
             THEN mode' = "ExtendedBootloader" /\ pc' = "f_listdir"
                  /\ UNCHANGED status
             ELSE mode' = "Unreachable" /\ Return("AbortedUnreachable")
    /\ UNCHANGED <<sessions, outcomes, kind, tools, wantDyn, files, idx,
                   outDirExists>>

\* line 110: os.listdir(image_dir), evaluated once for the loop
ListDir ==
    /\ pc = "f_listdir"
    /\ \E l \in DirListings :
          /\ files' = l
          /\ idx' = 1
    /\ Issue("listdir", <<>>, TRUE)
    /\ pc' = "f_loop"
    /\ UNCHANGED <<sessions, outcomes, mode, status, kind, tools, wantDyn,
                   outDirExists>>

\* LoopSkip that does not advance (a while loop whose skip branch forgets the
\* increment): the loop stays on the entry it passes over
LoopSkip_NoAdvance ==
    /\ pc = "f_loop"
    /\ idx <= Len(files)
    /\ ~IsCandidate(files[idx])
    /\ UNCHANGED vars

\* line 112 false: the entry is passed over
LoopSkip ==
    /\ pc = "f_loop"
    /\ idx <= Len(files)
    /\ ~IsCandidate(files[idx])
    /\ idx' = idx + 1
    /\ UNCHANGED <<pc, sessions, log, outcomes, mode, status, kind, tools,
                   wantDyn, files, outDirExists>>

\* LoopFlash with the sleep of line 128 moved out of the success branch: the
\* pause follows every flash
LoopFlash_PauseAlways ==
    /\ pc = "f_loop"
    /\ idx <= Len(files)
    /\ IsCandidate(files[idx])
    /\ \E rc \in {0, 1} :
          LET partition_name == PartitionName(files[idx]) IN
          /\ log' = Append(log, [cmd |-> "flash", arg |-> partition_name,
                                 path |-> files[idx], ok |-> (rc = 0)])
          /\ outcomes' = Append(outcomes, [partitionName |-> partition_name,
                                           succeeded |-> (rc = 0)])
          /\ pc' = "f_pause"
          /\ idx' = idx
    /\ UNCHANGED <<sessions, mode, status, kind, tools, wantDyn, files,
                   outDirExists>>

\* LoopFlash that records the newest outcome first (insert at the front
\* instead of append)
LoopFlash_PrependOutcome ==
    /\ pc = "f_loop"
    /\ idx <= Len(files)
    /\ IsCandidate(files[idx])
    /\ \E rc \in {0, 1} :
          LET partition_name == PartitionName(files[idx]) IN
          /\ log' = Append(log, [cmd |-> "flash", arg |-> partition_name,
                                 path |-> files[idx], ok |-> (rc = 0)])
          /\ outcomes' = <<[partitionName |-> partition_name,
                            succeeded |-> (rc = 0)]>> \o outcomes
          /\ IF rc = 0
             THEN pc' = "f_pause" /\ idx' = idx
             ELSE pc' = "f_loop" /\ idx' = idx + 1
    /\ UNCHANGED <<sessions, mode, status, kind, tools, wantDyn, files,
                   outDirExists>>

\* LoopFlash that tries a failed flash again: the loop does not advance on
\* failure
LoopFlash_RetryOnFailure ==
    /\ pc = "f_loop"
    /\ idx <= Len(files)
    /\ IsCandidate(files[idx])
    /\ \E rc \in {0, 1} :
          LET partition_name == PartitionName(files[idx]) IN
          /\ log' = Append(log, [cmd |-> "flash", arg |-> partition_name,
                                 path |-> files[idx], ok |-> (rc = 0)])
          /\ outcomes' = Append(outcomes, [partitionName |-> partition_name,
                                           succeeded |-> (rc = 0)])
          /\ IF rc = 0
             THEN pc' = "f_pause" /\ idx' = idx
             ELSE pc' = "f_loop" /\ idx' = idx
    /\ UNCHANGED <<sessions, mode, status, kind, tools, wantDyn, files,
                   outDirExists>>

\* LoopFlash with a return in the failure branch: the first failed flash ends
\* the session
LoopFlash_ReturnOnFailure ==
    /\ pc = "f_loop"
    /\ idx <= Len(files)
    /\ IsCandidate(files[idx])
    /\ \E rc \in {0, 1} :
          LET partition_name == PartitionName(files[idx]) IN
          /\ log' = Append(log, [cmd |-> "flash", arg |-> partition_name,
                                 path |-> files[idx], ok |-> (rc = 0)])
          /\ outcomes' = Append(outcomes, [partitionName |-> partition_name,
                                           succeeded |-> (rc = 0)])
          /\ IF rc = 0
             THEN pc' = "f_pause" /\ idx' = idx /\ UNCHANGED status
             ELSE Return("AbortedFlashFailed") /\ idx' = idx
    /\ UNCHANGED <<sessions, mode, kind, tools, wantDyn, files, outDirExists>>

\* LoopFlash with a break in the failure branch: the first failed flash
\* ends the loop
LoopFlash_BreakOnFailure ==
    /\ pc = "f_loop"
    /\ idx <= Len(files)
    /\ IsCandidate(files[idx])
    /\ \E rc \in {0, 1} :
          LET partition_name == PartitionName(files[idx]) IN
          /\ log' = Append(log, [cmd |-> "flash", arg |-> partition_name,
                                 path |-> files[idx], ok |-> (rc = 0)])
          /\ outcomes' = Append(outcomes, [partitionName |-> partition_name,
                                           succeeded |-> (rc = 0)])
          /\ IF rc = 0
             THEN pc' = "f_pause" /\ idx' = idx
             ELSE pc' = "f_loop" /\ idx' = Len(files) + 1
    /\ UNCHANGED <<sessions, mode, status, kind, tools, wantDyn, files,
                   outDirExists>>

\* lines 112-130: fastboot flash <partition_name> <img_path>, then the
\* success or the failure message
LoopFlash ==
    /\ pc = "f_loop"
    /\ idx <= Len(files)
    /\ IsCandidate(files[idx])
    /\ \E rc \in {0, 1} :
          LET partition_name == PartitionName(files[idx]) IN
          /\ log' = Append(log, [cmd |-> "flash", arg |-> partition_name,
                                 path |-> files[idx], ok |-> (rc = 0)])
          /\ outcomes' = Append(outcomes, [partitionName |-> partition_name,
                                           succeeded |-> (rc = 0)])
          /\ IF rc = 0
             THEN pc' = "f_pause" /\ idx' = idx
             ELSE pc' = "f_loop" /\ idx' = idx + 1
    /\ UNCHANGED <<sessions, mode, status, kind, tools, wantDyn, files,
                   outDirExists>>

\* line 128: time.sleep(1)
LoopPause ==
    /\ pc = "f_pause"
    /\ Issue("sleep1", <<>>, TRUE)
    /\ idx' = idx + 1
    /\ pc' = "f_loop"
    /\ UNCHANGED <<sessions, outcomes, mode, status, kind, tools, wantDyn,
                   files, outDirExists>>

\* the for loop is exhausted and the function returns
LoopEnd ==
    /\ pc = "f_loop"
    /\ idx > Len(files)
    /\ Return("Completed")
    /\ UNCHANGED <<sessions, log, outcomes, mode, kind, tools, wantDyn, files,
                   idx, outDirExists>>

----------------------------------------------------------------------------
(* unpack_payload *)

\* MkOutputDir moved behind the two existence checks (line 150 after line
\* 160): on the way in nothing is created
MkOutputDir_Deferred ==
    /\ pc = "u_mkdir"
    /\ pc' = "u_payload"
    /\ UNCHANGED <<sessions, log, outcomes, mode, status, kind, tools, wantDyn,
                   files, idx, outDirExists>>

\* line 150: output_dir.mkdir(parents=True, exist_ok=True)
MkOutputDir ==
    /\ pc = "u_mkdir"
    /\ Issue("mkdir", <<>>, TRUE)
    /\ outDirExists' = TRUE
    /\ pc' = "u_payload"
    /\ UNCHANGED <<sessions, outcomes, mode, status, kind, tools, wantDyn,
                   files, idx>>

\* CheckPayload with the return of line 155 lost
CheckPayload_NoReturn ==
    /\ pc = "u_payload"
    /\ \E exists \in BOOLEAN :
          /\ Issue("payload_exists", <<>>, exists)
          /\ pc' = "u_dumper"
    /\ UNCHANGED <<sessions, outcomes, mode, status, kind, tools, wantDyn,
                   files, idx, outDirExists>>

\* lines 153-155: if not payload_path.exists(): print; return
CheckPayload ==
    /\ pc = "u_payload"
    /\ \E exists \in BOOLEAN :
          /\ Issue("payload_exists", <<>>, exists)
          /\ IF ~exists
             THEN Return("ExtractionFailed")
             ELSE pc' = "u_dumper" /\ UNCHANGED status
    /\ UNCHANGED <<sessions, outcomes, mode, kind, tools, wantDyn, files, idx,
                   outDirExists>>

\* lines 158-160: if not dumper_path.exists(): print; return
CheckDumper ==
    /\ pc = "u_dumper"
    /\ \E exists \in BOOLEAN :
          /\ Issue("dumper_exists", <<>>, exists)
          /\ IF ~exists
             THEN Return("ExtractionFailed")
             ELSE pc' = "u_run" /\ UNCHANGED status
    /\ UNCHANGED <<sessions, outcomes, mode, kind, tools, wantDyn, files, idx,
                   outDirExists>>

\* lines 169-175: subprocess.run(command, check=True); CalledProcessError
\* (non-zero exit status) and FileNotFoundError are caught and printed
RunDumper ==
    /\ pc = "u_run"
    /\ \E result \in {"ok", "CalledProcessError", "FileNotFoundError"} :
          /\ Issue("dumper", <<>>, result = "ok")
          /\ Return(IF result = "ok" THEN "Extracted" ELSE "ExtractionFailed")
    /\ UNCHANGED <<sessions, outcomes, mode, kind, tools, wantDyn, files,
                   idx, outDirExists>>

----------------------------------------------------------------------------

Next ==
    \/ MenuUnpack
    \/ MenuFlash
    \/ MenuOther
    \/ MenuExit
    \/ DirCheck
    \/ LocateTools
    \/ Probe1
    \/ RebootBootloader
    \/ Settle1
    \/ Probe2
    \/ Ask
    \/ RebootFastbootd
    \/ Settle2
    \/ Probe3
    \/ ListDir
    \/ LoopSkip
    \/ LoopFlash
    \/ LoopPause
    \/ LoopEnd
    \/ MkOutputDir
    \/ CheckPayload
    \/ CheckDumper
    \/ RunDumper

Spec == Init /\ [][Next]_vars

\* a step of the function that is running: the program is sequential and
\* each external call and each sleep returns, so the running function always
\* takes its next step; what is chosen at the menu is up to the user
SessionStep ==
    \/ DirCheck \/ LocateTools \/ Probe1 \/ RebootBootloader \/ Settle1
    \/ Probe2 \/ Ask \/ RebootFastbootd \/ Settle2 \/ Probe3 \/ ListDir
    \/ LoopSkip \/ LoopFlash \/ LoopPause \/ LoopEnd
    \/ MkOutputDir \/ CheckPayload \/ CheckDumper \/ RunDumper

FairSpec == Init /\ [][Next]_vars /\ WF_vars(SessionStep)

----------------------------------------------------------------------------
(* Reading the log *)

IsFlashEv(e) == e.cmd = "flash"
IsProbeEv(e) == e.cmd = "probe"
IsDeviceEv(e) == e.cmd \in {"probe", "reboot_bootloader", "reboot_fastboot", "flash"}

FlashEvents == SelectSeq(log, IsFlashEv)
ProbeEvents == SelectSeq(log, IsProbeEv)
DeviceEvents == SelectSeq(log, IsDeviceEv)

Issued(cmd) == \E i \in 1..Len(log) : log[i].cmd = cmd
IssuedWith(cmd, ok) == \E i \in 1..Len(log) : log[i].cmd = cmd /\ log[i].ok = ok

SessionOver == pc \in {"menu", "exited"}

\* the first probe of the session failed
FirstProbeFailed == ProbeEvents # <<>> /\ ~ProbeEvents[1].ok

\* a probe that directly follows the settle delay of a reboot command `reboot`
\* failed
ProbeAfterFailed(reboot) ==
    \E i \in 3..Len(log) :
        /\ log[i].cmd = "probe" /\ ~log[i].ok
        /\ log[i-1].cmd = "sleep10"
        /\ log[i-2].cmd = reboot /\ log[i-2].ok

\* the four ways a mode gate fails
GateFailedA == FirstProbeFailed /\ IssuedWith("reboot_bootloader", FALSE)
GateFailedB == FirstProbeFailed /\ ProbeAfterFailed("reboot_bootloader")
GateFailedC == wantDyn = "yes" /\ IssuedWith("reboot_fastboot", FALSE)
GateFailedD == wantDyn = "yes" /\ ProbeAfterFailed("reboot_fastboot")
GateFailed == GateFailedA \/ GateFailedB \/ GateFailedC \/ GateFailedD

----------------------------------------------------------------------------
(* Claims *)

\* C1: in a flash session in which a mode gate has failed (first probe and
\* reboot-to-bootloader fail; first probe and the probe after the settle delay
\* fail; escalation requested and its reboot fails; escalation requested and
\* the re-probe fails) no flash command is issued, neither before nor after
\* the failure, and the session is over.
C1_NoFlashWhenGateFails ==
    (kind = "flash" /\ GateFailed) =>
        /\ FlashEvents = <<>>
        /\ outcomes = <<>>
        /\ SessionOver

\* a session that ended on the failed re-probe after a successful escalation
\* reboot
C1_Witness ==
    /\ kind = "flash"
    /\ GateFailedD
    /\ ~GateFailedA /\ ~GateFailedB /\ ~GateFailedC
    /\ pc = "menu"

\* C2: when the probe fails before and after a successful reboot to the
\* bootloader, the session ends Unreachable with status AbortedUnreachable,
\* no flash command is issued and the escalation is neither asked for nor
\* attempted.
C2_UnreachableAfterFailedReprobe ==
    (kind = "flash" /\ GateFailedB) =>
        /\ mode = "Unreachable"
        /\ status = "AbortedUnreachable"
        /\ SessionOver
        /\ FlashEvents = <<>>
        /\ ~Issued("input")
        /\ wantDyn = "unasked"
        /\ ~Issued("reboot_fastboot")

C2_Witness ==
    /\ kind = "flash"
    /\ GateFailedB
    /\ IssuedWith("reboot_bootloader", TRUE)
    /\ Len(ProbeEvents) = 2
    /\ pc = "menu"

\* the candidates among the first n entries of the listing, in order, decided
\* by the suffix alone
RECURSIVE SuffixedUpTo(_, _)
SuffixedUpTo(l, n) ==
    IF n = 0 THEN <<>>
    ELSE IF EndsWith(l[n], IMG_SUFFIX)
         THEN Append(SuffixedUpTo(l, n - 1), l[n])
         ELSE SuffixedUpTo(l, n - 1)

\* the number of entries of the listing the loop has dealt with
Processed ==
    IF pc = "f_pause" THEN idx
    ELSE IF pc = "f_loop" THEN idx - 1
    ELSE Len(files)

InLoopOrCompleted ==
    /\ kind = "flash"
    /\ \/ pc \in {"f_loop", "f_pause"}
       \/ status = "Completed"

StripSuffix(name) == SubSeq(name, 1, Len(name) - Len(IMG_SUFFIX))

\* C4: a session that passes the gates and completes issues exactly one flash
\* command per entry ending in .img, in listing order, with the partition
\* name equal to the entry name with the suffix stripped, and neither a
\* command nor an outcome for any other entry.
C4_OneFlashPerSuffixedEntry ==
    (kind = "flash" /\ status = "Completed") =>
        /\ [i \in 1..Len(FlashEvents) |-> FlashEvents[i].path]
              = SuffixedUpTo(files, Len(files))
        /\ Len(outcomes) = Len(FlashEvents)
        /\ \A i \in 1..Len(FlashEvents) :
              /\ FlashEvents[i].arg = StripSuffix(FlashEvents[i].path)
              /\ outcomes[i].partitionName = StripSuffix(FlashEvents[i].path)

\* C5: in a session whose answer to the prompt is not 'y' (and in one that
\* never reaches the prompt) the escalation reboot command is never issued
\* and the mode never becomes ExtendedBootloader.
C5_EscalationOnlyOnOptIn ==
    (kind = "flash" /\ wantDyn # "yes") =>
        /\ ~Issued("reboot_fastboot")
        /\ mode # "ExtendedBootloader"

\* a session that answered no and went on to flash
C5_Witness ==
    /\ kind = "flash"
    /\ wantDyn = "no"
    /\ IssuedWith("input", FALSE)
    /\ FlashEvents # <<>>
    /\ status = "Completed"

\* C6: when the image directory does not exist the session reports
\* AbortedNoDirectory, issues no flash command and produces no outcome.
C6_NoDirectoryNoFlash ==
    (kind = "flash" /\ IssuedWith("dir_exists", FALSE)) =>
        /\ status = "AbortedNoDirectory"
        /\ SessionOver
        /\ FlashEvents = <<>>
        /\ outcomes = <<>>

C6_Witness ==
    /\ kind = "flash"
    /\ IssuedWith("dir_exists", FALSE)
    /\ status = "AbortedNoDirectory"
    /\ pc = "menu"

\* C7: no step of the extraction issues a device command, and with the
\* archive missing the extraction reports ExtractionFailed without running
\* the extractor.
C7_ExtractionLeavesDeviceAlone ==
    kind = "unpack" =>
        /\ DeviceEvents = <<>>
        /\ mode = "Unknown"
        /\ IssuedWith("payload_exists", FALSE) =>
              /\ status = "ExtractionFailed"
              /\ SessionOver
              /\ ~Issued("dumper")
              /\ ~Issued("dumper_exists")

C7_Witness ==
    /\ kind = "unpack"
    /\ IssuedWith("payload_exists", FALSE)
    /\ status = "ExtractionFailed"
    /\ pc = "menu"

\* the step appends a flash command to the log
FlashIssuedStep ==
    /\ Len(log') = Len(log) + 1
    /\ log'[Len(log')].cmd = "flash"

\* C8: whenever a flash command is issued the mode is ExtendedBootloader if
\* the escalation was requested and Bootloader otherwise (so never Unknown or
\* Unreachable), and issuing the command leaves the mode as it is.
C8_FlashOnlyInTerminalMode ==
    [][FlashIssuedStep =>
          /\ wantDyn \in {"yes", "no"}
          /\ mode = (IF wantDyn = "yes" THEN "ExtendedBootloader"
                     ELSE "Bootloader")
          /\ mode' = mode]_vars

\* flash commands issued in ExtendedBootloader mode after a reboot to the
\* bootloader and an escalation
C8_Witness ==
    /\ kind = "flash"
    /\ FlashEvents # <<>>
    /\ wantDyn = "yes"
    /\ mode = "ExtendedBootloader"
    /\ IssuedWith("reboot_bootloader", TRUE)

\* C9: when the first probe succeeds, no reboot to the bootloader is issued
\* and no settle delay is taken for it (the only ten-second sleeps are those
\* that follow an escalation reboot); a reboot to the bootloader is issued
\* only directly after a failed first probe.
C9_NoRebootWhenAlreadyInBootloader ==
    kind = "flash" =>
        /\ (ProbeEvents # <<>> /\ ProbeEvents[1].ok) =>
              /\ ~Issued("reboot_bootloader")
              /\ \A i \in 1..Len(log) :
                    log[i].cmd = "sleep10" =>
                        i > 1 /\ log[i-1].cmd = "reboot_fastboot"
        /\ \A i \in 1..Len(log) :
              log[i].cmd = "reboot_bootloader" =>
                  /\ i > 1
                  /\ log[i-1].cmd = "probe"
                  /\ ~log[i-1].ok
                  /\ \A j \in 1..(i-2) : log[j].cmd # "probe"

\* the first probe succeeded and the session, with an escalation and its
\* settle delay, went on to flash
C9_Witness ==
    /\ kind = "flash"
    /\ ProbeEvents # <<>> /\ ProbeEvents[1].ok
    /\ Issued("sleep10")
    /\ FlashEvents # <<>>

\* C10: when the first probe and then the reboot to the bootloader fail, the
\* session is Unreachable at once: the failed reboot is the last thing it
\* did, with no settle delay, no second probe, no prompt, no escalation and
\* no flash. In general, once the mode is Unreachable the session is over and
\* the failed probe or reboot is the last event of its log.
C10_RebootFailureIsTerminal ==
    kind = "flash" =>
        /\ GateFailedA =>
              /\ mode = "Unreachable"
              /\ status = "AbortedUnreachable"
              /\ SessionOver
              /\ log[Len(log)] = Ev("reboot_bootloader", <<>>, FALSE)
              /\ ~Issued("sleep10")
              /\ Len(ProbeEvents) = 1
              /\ ~Issued("input")
              /\ ~Issued("reboot_fastboot")
              /\ FlashEvents = <<>>
        /\ mode = "Unreachable" =>
              /\ SessionOver
              /\ log # <<>>
              /\ log[Len(log)].cmd \in {"probe", "reboot_bootloader",
                                        "reboot_fastboot"}
              /\ ~log[Len(log)].ok

C10_Witness ==
    /\ kind = "flash"
    /\ GateFailedA
    /\ mode = "Unreachable"
    /\ pc = "menu"

\* the number of times a command appears in the log of the session
Count(cmd) == Cardinality({ i \in 1..Len(log) : log[i].cmd = cmd })

\* C11: in a flash session the reboot to the bootloader is issued at most
\* once, the escalation reboot at most once, at most three probes are made,
\* and no image is flashed twice, whether its flash failed or not.
C11_NoRetries ==
    kind = "flash" =>
        /\ Count("reboot_bootloader") <= 1
        /\ Count("reboot_fastboot") <= 1
        /\ Len(ProbeEvents) <= 3
        /\ \A i, j \in 1..Len(FlashEvents) :
              i # j => FlashEvents[i].path # FlashEvents[j].path

\* a session with both reboots and three probes in which a flash failed and
\* the loop went on to its end
C11_Witness ==
    /\ kind = "flash"
    /\ Count("reboot_bootloader") = 1
    /\ Count("reboot_fastboot") = 1
    /\ Len(ProbeEvents) = 3
    /\ IssuedWith("flash", FALSE)
    /\ Len(FlashEvents) >= 2
    /\ status = "Completed"

\* the listing has been read, which happens only past the directory check
\* and the mode gates
GatesPassed == kind = "flash" /\ Issued("listdir")

C13_ToolUnavailableBeforeAnyDeviceCommand ==
    (kind = "flash" /\ IssuedWith("locate", FALSE)) =>
        /\ pc = "exited"
        /\ status = "ToolUnavailable"
        /\ tools = "none"
        /\ log[Len(log)] = Ev("locate", <<>>, FALSE)
        /\ DeviceEvents = <<>>
        /\ ~Issued("input")
        /\ ~Issued("listdir")
        /\ outcomes = <<>>
        /\ mode = "Unknown"

C13_Witness ==
    /\ kind = "flash"
    /\ IssuedWith("dir_exists", TRUE)
    /\ IssuedWith("locate", FALSE)
    /\ pc = "exited"

\* the position of an entry in the listing (entries are distinct)
PosInFiles(name) == CHOOSE i \in 1..Len(files) : files[i] = name

\* C14: candidates are flashed one at a time in listing order and outcomes
\* are recorded in the order of the flash commands: when a flash command is
\* issued, every earlier flash command has its outcome recorded and was for
\* an entry earlier in the listing, and the step records the outcome of the
\* new command at the end of the sequence.
C14_FlashAndOutcomesInListingOrder ==
    [][FlashIssuedStep =>
          LET new == log'[Len(log')] IN
          /\ Len(outcomes) = Len(FlashEvents)
          /\ \A i \in 1..Len(FlashEvents) :
                /\ outcomes[i].partitionName = FlashEvents[i].arg
                /\ outcomes[i].succeeded = FlashEvents[i].ok
                /\ PosInFiles(FlashEvents[i].path) < PosInFiles(new.path)
          /\ outcomes' = Append(outcomes, [partitionName |-> new.arg,
                                           succeeded |-> new.ok])]_vars

\* three candidates flashed, the second listed entry being the one that
\* failed
C14_Witness ==
    /\ kind = "flash"
    /\ Len(files) = 3
    /\ Len(FlashEvents) = 3
    /\ \A i \in 1..3 : FlashEvents[i].path = files[i]
    /\ FlashEvents[1].ok /\ ~FlashEvents[2].ok /\ FlashEvents[3].ok
    /\ Len(outcomes) = 3

IsReboot(e) == e.cmd \in {"reboot_bootloader", "reboot_fastboot"}

\* C15: every reboot command that reports success is followed by exactly one
\* ten-second delay and then exactly one probe: the delay is the next event,
\* the probe the one after it, the event after the probe is neither a delay
\* nor a probe, and the session does not end before the probe is made. No
\* delay is taken except directly after a successful reboot, and a reboot
\* that fails is followed by nothing.
C15_FixedWaitThenProbe ==
    kind = "flash" =>
        \A i \in 1..Len(log) :
            /\ (IsReboot(log[i]) /\ log[i].ok) =>
                  /\ Len(log) >= i + 1 => log[i+1].cmd = "sleep10"
                  /\ Len(log) >= i + 2 => log[i+2].cmd = "probe"
                  /\ Len(log) >= i + 3 => log[i+3].cmd \notin {"sleep10", "probe"}
                  /\ Len(log) = i =>
                        pc = (IF log[i].cmd = "reboot_bootloader"
                              THEN "f_settle" ELSE "f_fbd_settle")
                  /\ Len(log) = i + 1 =>
                        pc = (IF log[i].cmd = "reboot_bootloader"
                              THEN "f_probe2" ELSE "f_probe3")
            /\ (IsReboot(log[i]) /\ ~log[i].ok) => Len(log) = i
            /\ log[i].cmd = "sleep10" =>
                  i > 1 /\ IsReboot(log[i-1]) /\ log[i-1].ok

\* both reboots succeeded, each was followed by its delay and its probe, and
\* the session went on to flash
C15_Witness ==
    /\ kind = "flash"
    /\ IssuedWith("reboot_bootloader", TRUE)
    /\ IssuedWith("reboot_fastboot", TRUE)
    /\ Count("sleep10") = 2
    /\ Len(ProbeEvents) = 3
    /\ FlashEvents # <<>>

\* C16: the one-second pause follows each successful flash and only that: a
\* flash that succeeded is followed at once by a pause (or the pause is the
\* next step), a flash that failed is not, and every pause directly follows
\* a successful flash.
C16_PauseAfterSuccessOnly ==
    kind = "flash" =>
        \A i \in 1..Len(log) :
            /\ (log[i].cmd = "flash" /\ log[i].ok) =>
                  /\ Len(log) > i => log[i+1].cmd = "sleep1"
                  /\ Len(log) = i => pc = "f_pause"
            /\ (log[i].cmd = "flash" /\ ~log[i].ok) =>
                  /\ Len(log) > i => log[i+1].cmd # "sleep1"
                  /\ Len(log) = i => pc # "f_pause"
            /\ log[i].cmd = "sleep1" =>
                  i > 1 /\ log[i-1].cmd = "flash" /\ log[i-1].ok

\* a successful flash with its pause, then a failed flash followed directly
\* by the next flash
C16_Witness ==
    /\ kind = "flash"
    /\ \E i \in 1..Len(log) :
          /\ Len(log) >= i + 3
          /\ log[i].cmd = "flash" /\ log[i].ok
          /\ log[i+1].cmd = "sleep1"
          /\ log[i+2].cmd = "flash" /\ ~log[i+2].ok
          /\ log[i+3].cmd = "flash"

\* before position i of the log there is a probe that succeeded, and between
\* that probe and position i neither a probe nor a reboot
FreshProbeBefore(i) ==
    \E j \in 1..(i - 1) :
        /\ log[j].cmd = "probe" /\ log[j].ok
        /\ \A k \in (j + 1)..(i - 1) :
              log[k].cmd # "probe" /\ ~IsReboot(log[k])

\* C17: every flash command and every escalation reboot is issued with the
\* most recent probe of the session successful and no reboot since that
\* probe; the escalation reboot is issued in mode Bootloader, and the mode
\* becomes ExtendedBootloader only from Bootloader.
C17_FlashAndEscalationAfterFreshProbe ==
    /\ kind = "flash" =>
          /\ \A i \in 1..Len(log) :
                log[i].cmd \in {"flash", "reboot_fastboot"} => FreshProbeBefore(i)
          /\ pc \in {"f_fbd_reboot", "f_fbd_settle", "f_probe3"} =>
                mode = "Bootloader"
    /\ mode = "ExtendedBootloader" =>
          /\ Len(ProbeEvents) >= 2
          /\ \E i \in 1..Len(log) : log[i].cmd = "reboot_fastboot" /\ log[i].ok

\* the device was rebooted to the bootloader, found, escalated, found again
\* and flashed
C17_Witness ==
    /\ kind = "flash"
    /\ FirstProbeFailed
    /\ IssuedWith("reboot_bootloader", TRUE)
    /\ IssuedWith("reboot_fastboot", TRUE)
    /\ mode = "ExtendedBootloader"
    /\ Len(FlashEvents) >= 2

\* C18: the directory check is the first thing a flash session does, and when
\* the directory does not exist it is the only thing: no probe, no reboot, no
\* search for the tools, no prompt, and the mode is still Unknown.
C18_DirectoryCheckIsFirstGate ==
    kind = "flash" =>
        /\ log # <<>> => log[1].cmd = "dir_exists"
        /\ IssuedWith("dir_exists", FALSE) =>
              /\ log = <<Ev("dir_exists", <<>>, FALSE)>>
              /\ DeviceEvents = <<>>
              /\ ~Issued("locate")
              /\ tools = "none"
              /\ ~Issued("input")
              /\ wantDyn = "unasked"
              /\ mode = "Unknown"

\* the session has returned to the menu from the failed directory check
C18_Witness ==
    /\ kind = "flash"
    /\ log = <<Ev("dir_exists", <<>>, FALSE)>>
    /\ pc = "menu"
    /\ mode = "Unknown"

FlashRunning == kind = "flash" /\ status = "Running"

C20_OutputDirFirstExtractorOnce ==
    kind = "unpack" =>
        /\ pc # "u_mkdir" =>
              /\ outDirExists
              /\ log # <<>> /\ log[1].cmd = "mkdir"
        /\ Count("dumper") <= 1
        /\ Issued("dumper") =>
              /\ IssuedWith("payload_exists", TRUE)
              /\ IssuedWith("dumper_exists", TRUE)
        /\ (SessionOver /\ IssuedWith("payload_exists", TRUE)
                        /\ IssuedWith("dumper_exists", TRUE)) =>
              Count("dumper") = 1
        /\ (IssuedWith("payload_exists", FALSE)
              \/ IssuedWith("dumper_exists", FALSE)) =>
              /\ ~Issued("dumper")
              /\ SessionOver
              /\ status = "ExtractionFailed"

\* an invocation that found the archive but not the extractor and has
\* returned, the output directory being there
C20_Witness ==
    /\ kind = "unpack"
    /\ IssuedWith("payload_exists", TRUE)
    /\ IssuedWith("dumper_exists", FALSE)
    /\ pc = "menu"
    /\ outDirExists

====
